---- MODULE Spec2Model ----
(***************************************************************************)
(* The certification-advice pipeline of simple_agents.py: the Catalog      *)
(* Store (CertificationData), the four agents (Goal, Prerequisite,         *)
(* Curriculum, Schedule) and a driver that runs them in order on one       *)
(* shared AgentContext.                                                    *)
(*                                                                         *)
(* Python values are modelled as follows.  A str is a sequence of          *)
(* one-character strings; a value whose Python type may vary (a profile    *)
(* entry, a completion's content, selected_certification) is tagged with   *)
(* its type; a dict is a record whose DOMAIN is its key set; None is the   *)
(* record None.  An operation that may raise returns Ok(v) or Raise(e).    *)
(***************************************************************************)
EXTENDS Integers, Sequences, FiniteSets, TLC

VARIABLES source, certifications, context, pc, log, calls

vars == <<source, certifications, context, pc, log, calls>>

-----------------------------------------------------------------------------
(* Bounds of the model *)

\* longest certifications array read from the backing file
MaxCatalog == 2
\* completion texts are concatenations of at most MaxChunks fragments
MaxChunks == 4
\* fault messages are concatenations of at most MaxFaultChunks fragments
MaxFaultChunks == 2
\* completion texts offered to an agent called on its own
MaxCallChunks == 2
\* longest weekly breakdown of a study plan handed to the Schedule agent
MaxWeeks == 3

-----------------------------------------------------------------------------
(* Python values *)

None == [type |-> "NoneType"]
PyStr(s) == [type |-> "str", val |-> s]
PyInt(n) == [type |-> "int", val |-> n]

Ok(v) == [exc |-> "", val |-> v]
Raise(e) == [exc |-> e]
Raised(r) == r.exc # ""

-----------------------------------------------------------------------------
(* str methods and the builtins the agents use *)

LowerCase == <<"a","b","c","d","e","f","g","h","i","j","k","l","m",
               "n","o","p","q","r","s","t","u","v","w","x","y","z">>
UpperCase == <<"A","B","C","D","E","F","G","H","I","J","K","L","M",
               "N","O","P","Q","R","S","T","U","V","W","X","Y","Z">>
DigitChars == <<"0","1","2","3","4","5","6","7","8","9">>

Letters == {UpperCase[i] : i \in 1..26}
Digits == {DigitChars[i] : i \in 1..10}

ToUpper ==
    [c \in {LowerCase[i] : i \in 1..26} |->
        UpperCase[CHOOSE i \in 1..26 : LowerCase[i] = c]]

ToLower ==
    [c \in {UpperCase[i] : i \in 1..26} |->
        LowerCase[CHOOSE i \in 1..26 : UpperCase[i] = c]]

upper_char(c) == IF c \in DOMAIN ToUpper THEN ToUpper[c] ELSE c

lower_char(c) == IF c \in DOMAIN ToLower THEN ToLower[c] ELSE c

\* str.upper()
upper(s) == [i \in 1..Len(s) |-> upper_char(s[i])]

\* str.lower()
lower(s) == [i \in 1..Len(s) |-> lower_char(s[i])]

IsSpace(c) == c \in {" ", "\t", "\n"}

RECURSIVE lstrip(_)
lstrip(s) ==
    IF s # <<>> /\ IsSpace(Head(s)) THEN lstrip(Tail(s)) ELSE s

RECURSIVE rstrip(_)
rstrip(s) ==
    IF s # <<>> /\ IsSpace(s[Len(s)]) THEN rstrip(SubSeq(s, 1, Len(s) - 1)) ELSE s

\* str.strip()
strip(s) == rstrip(lstrip(s))

RECURSIVE TakeUntil(_, _)
TakeUntil(s, stop) ==
    IF s = <<>> \/ Head(s) \in stop THEN <<>>
    ELSE <<Head(s)>> \o TakeUntil(Tail(s), stop)

\* s.split(sep)[0]: the text before the first separator
split_first(s, sep) == TakeUntil(s, {sep})

\* s.split()[0] for a text with a non-blank character: its first
\* whitespace-delimited token
first_token(s) == TakeUntil(lstrip(s), {" ", "\t", "\n"})

DigitVal(c) == (CHOOSE i \in 1..10 : DigitChars[i] = c) - 1

RECURSIVE DigitsValue(_, _)
DigitsValue(s, acc) ==
    IF s = <<>> THEN acc
    ELSE IF Head(s) = "_" THEN DigitsValue(Tail(s), acc)
    ELSE DigitsValue(Tail(s), 10 * acc + DigitVal(Head(s)))

\* the digit part of an integer literal: digits, single underscores between
IsDigitBody(b) ==
    /\ b # <<>>
    /\ b[1] \in Digits
    /\ b[Len(b)] \in Digits
    /\ \A i \in 1..Len(b) : b[i] \in Digits \cup {"_"}
    /\ \A i \in 1..(Len(b) - 1) : ~(b[i] = "_" /\ b[i + 1] = "_")

\* int(s) of a str: surrounding whitespace, an optional sign, decimal digits
int(s) ==
    LET t == strip(s)
        signed == t # <<>> /\ Head(t) \in {"+", "-"}
        body == IF signed THEN Tail(t) ELSE t
    IN  IF IsDigitBody(body)
        THEN Ok(IF signed /\ Head(t) = "-"
                THEN 0 - DigitsValue(body, 0) ELSE DigitsValue(body, 0))
        ELSE Raise("ValueError")

\* length of the match of [A-Z]{2}-\d{3,4} at position i of s, 0 if none
MatchLen(s, i) ==
    IF /\ i + 5 <= Len(s)
       /\ s[i] \in Letters
       /\ s[i + 1] \in Letters
       /\ s[i + 2] = "-"
       /\ s[i + 3] \in Digits
       /\ s[i + 4] \in Digits
       /\ s[i + 5] \in Digits
    THEN IF i + 6 <= Len(s) /\ s[i + 6] \in Digits THEN 7 ELSE 6
    ELSE 0

RECURSIVE ScanFrom(_, _)
ScanFrom(s, i) ==
    IF i > Len(s) THEN <<>>
    ELSE LET n == MatchLen(s, i)
         IN  IF n > 0
             THEN <<SubSeq(s, i, i + n - 1)>> \o ScanFrom(s, i + n)
             ELSE ScanFrom(s, i + 1)

\* re.findall(r'[A-Z]{2}-\d{3,4}', s): leftmost non-overlapping matches
re_findall(s) == ScanFrom(s, 1)

Min(a, b) == IF a <= b THEN a ELSE b
Max(a, b) == IF a >= b THEN a ELSE b

\* an f-string: its template and the values substituted into it
Format(fmt, args) == [fmt |-> fmt, args |-> args]

-----------------------------------------------------------------------------
(* AgentType, AgentContext, AgentResult *)

GOAL == "goal"
PREREQUISITE == "prerequisite"
CURRICULUM == "curriculum"
SCHEDULE == "schedule"
\* next_agent = None
NoAgent == "None"

AgentContext(user_profile) ==
    [user_profile |-> user_profile,
     selected_certification |-> None,
     recommendations |-> None,
     prerequisites_analysis |-> None,
     study_plan |-> None,
     schedule |-> None]

AgentResult(success, data, message, next_agent, context_updates) ==
    [success |-> success, data |-> data, message |-> message,
     next_agent |-> next_agent, context_updates |-> context_updates]

-----------------------------------------------------------------------------
(* CertificationData *)

AZ900 == <<"a","z","-","9","0","0">>
AI900 == <<"a","i","-","9","0","0">>

CertificationData_get_sample_certifications ==
    << [id |-> AZ900,
        title |-> "Azure Fundamentals",
        description |-> "Learn cloud concepts and Azure services",
        level |-> "Fundamental",
        category |-> "Cloud",
        prerequisites |-> "None",
        estimated_study_time |-> <<"2","0","-","3","0"," ","h","o","u","r","s">>],
       [id |-> AI900,
        title |-> "Azure AI Fundamentals",
        description |-> "Learn AI and machine learning fundamentals",
        level |-> "Fundamental",
        category |-> "AI",
        prerequisites |-> "None",
        estimated_study_time |-> <<"3","0","-","4","0"," ","h","o","u","r","s">>] >>

\* open('data/certifications.json') and json.load, by the state of the file
CertificationData_load_certifications(src) ==
    CASE src.state = "missing"    -> Ok(CertificationData_get_sample_certifications)
      [] src.state = "unreadable" -> Raise("PermissionError")
      [] src.state = "malformed"  -> Raise("JSONDecodeError")
      [] src.state = "no_key"     -> Ok(<<>>)
      [] src.state = "loaded"     -> Ok(src.certifications)

\* CertificationData(): the constructor returns the catalog or lets the
\* fault of the load escape
CertificationData_init(src) == CertificationData_load_certifications(src)

\* cert.get('id', '')
CertId(cert) == IF "id" \in DOMAIN cert THEN cert.id ELSE <<>>

CertificationData_get_certification_by_id(certs, cert_id) ==
    LET hits == {i \in 1..Len(certs) : lower(CertId(certs[i])) = lower(cert_id)}
    IN  IF hits = {} THEN None
        ELSE certs[CHOOSE i \in hits : \A j \in hits : i <= j]

-----------------------------------------------------------------------------
(* BaseAgent *)

ErrorPrefix == <<"E","r","r","o","r"," ","g","e","t","t","i","n","g"," ",
                 "A","I"," ","r","e","s","p","o","n","s","e",":"," ">>

\* The Completion Service either answers with a message whose content is a
\* str or None, or faults with a message; the fault is caught and its text
\* returned in place of a completion.
BaseAgent_get_ai_response(completion) ==
    IF completion.kind = "fault"
    THEN PyStr(ErrorPrefix \o completion.message)
    ELSE completion.content

-----------------------------------------------------------------------------
(* GoalAgent *)

\* The message is built from cert['id'], cert['title'], cert['level'] and
\* cert['description'] of every record; a record without one of them
\* raises KeyError.
GoalAgent_prepare_user_message(ctx, certs) ==
    IF \A i \in 1..Len(certs) :
           {"id", "title", "level", "description"} \subseteq DOMAIN certs[i]
    THEN Ok([context_info |-> IF ctx # None THEN "User Profile" ELSE "No context",
             certs_info |-> [i \in 1..Len(certs) |-> upper(certs[i].id)]])
    ELSE Raise("KeyError")

\* recommendations of the except branch of _parse_recommendations
FallbackRecommendations ==
    << [certification_id |-> PyStr(AZ900),
        title |-> "Azure Fundamentals",
        reasoning |-> "Great starting point for cloud computing",
        difficulty |-> "Fundamental",
        estimated_study_time |-> <<"2","0","-","3","0"," ","h","o","u","r","s">>] >>

\* the loop of _parse_recommendations over the matched identifiers
RECURSIVE Recommend(_, _)
Recommend(cert_ids, certs) ==
    IF cert_ids = <<>> THEN Ok(<<>>)
    ELSE LET cert_id == Head(cert_ids)
             cert == CertificationData_get_certification_by_id(certs, cert_id)
             rest == Recommend(Tail(cert_ids), certs)
         IN  IF cert = None THEN rest
             ELSE IF ~({"title", "level", "estimated_study_time"} \subseteq DOMAIN cert)
                  THEN Raise("KeyError")
             ELSE IF Raised(rest) THEN rest
             ELSE Ok(<< [certification_id |-> PyStr(lower(cert_id)),
                         title |-> cert.title,
                         reasoning |-> "Recommended based on user profile analysis",
                         difficulty |-> cert.level,
                         estimated_study_time |-> cert.estimated_study_time] >>
                     \o rest.val)

\* _parse_recommendations keeping the first `limit` matches
ParseRecommendations(ai_response, certs, limit) ==
    IF ai_response.type # "str"
    THEN FallbackRecommendations      \* AttributeError on .upper(), caught
    ELSE LET cert_ids == re_findall(upper(ai_response.val))
             kept == SubSeq(cert_ids, 1, Min(limit, Len(cert_ids)))
             built == Recommend(kept, certs)
         IN  IF Raised(built) THEN FallbackRecommendations ELSE built.val

\* _parse_recommendations with the slice cert_ids[:2]
GoalAgent_parse_recommendations_cap2(ai_response, certs) ==
    ParseRecommendations(ai_response, certs, 2)

GoalAgent_parse_recommendations(ai_response, certs) ==
    ParseRecommendations(ai_response, certs, 3)

\* the try block of GoalAgent.execute
GoalAgent_try(ctx, certs, completion) ==
    LET user_message == GoalAgent_prepare_user_message(ctx, certs)
        ai_response == BaseAgent_get_ai_response(completion)
        recommendations == GoalAgent_parse_recommendations(ai_response, certs)
    IN  IF Raised(user_message) THEN user_message
        ELSE IF recommendations # <<>>
        THEN Ok(AgentResult(TRUE,
                            [recommendations |-> recommendations],
                            "Successfully recommended certifications",
                            PREREQUISITE,
                            [selected_certification |->
                                 recommendations[1].certification_id]))
        ELSE Ok(AgentResult(FALSE,
                            [error |-> "No recommendations generated"],
                            "Failed to generate recommendations",
                            PREREQUISITE,
                            None))

GoalAgent_execute(ctx, certs, completion) ==
    LET r == GoalAgent_try(ctx, certs, completion)
    IN  IF Raised(r)
        THEN Ok(AgentResult(FALSE, [error |-> r.exc], "Error in goal agent",
                            PREREQUISITE, None))
        ELSE r

\* whether execute reaches its call of the Completion Service
GoalAgent_calls_service(ctx, certs) ==
    ~Raised(GoalAgent_prepare_user_message(ctx, certs))

-----------------------------------------------------------------------------
(* PrerequisiteAgent *)

\* `not cert_id`: None or the empty str
NoCertId(cert_id) == cert_id = None \/ cert_id = PyStr(<<>>)

SelectedOf(ctx) == IF ctx # None THEN ctx.selected_certification ELSE None

PrerequisiteAgent_try(ctx, certs) ==
    LET cert_id == SelectedOf(ctx)
        cert == CertificationData_get_certification_by_id(certs, cert_id.val)
        analysis ==
            [certification_id |-> cert_id,
             meets_prerequisites |-> TRUE,
             knowledge_gaps |-> <<"Basic IT concepts">>,
             preparation_recommendations |->
                 << [topic |-> "Basic IT Concepts",
                     resources |-> <<"Microsoft Learn fundamentals">>,
                     estimated_time |-> "10-15 hours"] >>,
             timeline |-> "2-3 weeks",
             confidence_level |-> "high"]
    IN  IF NoCertId(cert_id)
        THEN Ok(AgentResult(FALSE, [error |-> "No certification selected"],
                            "No certification selected for analysis",
                            CURRICULUM, None))
        ELSE IF cert_id.type # "str" THEN Raise("AttributeError")
        ELSE IF cert = None
        THEN Ok(AgentResult(FALSE, [error |-> "Certification not found"],
                            "Certification not found", CURRICULUM, None))
        ELSE Ok(AgentResult(TRUE, [prerequisites_analysis |-> analysis],
                            "Successfully analyzed prerequisites",
                            CURRICULUM, [prerequisites_analysis |-> analysis]))

\* execute whose failure results carry no next agent
PrerequisiteAgent_execute_stops(ctx, certs) ==
    LET r == PrerequisiteAgent_try(ctx, certs)
    IN  IF Raised(r)
        THEN Ok(AgentResult(FALSE, [error |-> r.exc],
                            "Error in prerequisite agent", CURRICULUM, None))
        ELSE IF ~r.val.success
        THEN Ok(AgentResult(FALSE, r.val.data, r.val.message, NoAgent, None))
        ELSE r

PrerequisiteAgent_execute(ctx, certs) ==
    LET r == PrerequisiteAgent_try(ctx, certs)
    IN  IF Raised(r)
        THEN Ok(AgentResult(FALSE, [error |-> r.exc],
                            "Error in prerequisite agent", CURRICULUM, None))
        ELSE r

-----------------------------------------------------------------------------
(* CurriculumAgent *)

Activities == <<"Study modules", "Practice exercises", "Review concepts">>

\* the breakdown in which week w is given hours[w] hours
Breakdown(hours) ==
    [week \in 1..Len(hours) |->
        [week |-> week,
         focus |-> Format("Week {} topics", <<week>>),
         hours |-> hours[week],
         activities |-> Activities]]

\* _create_weekly_breakdown giving each week all the hours that remain
CurriculumAgent_create_weekly_breakdown_remainder(cert) ==
    LET total_hours == int(split_first(cert.estimated_study_time, "-"))
        weeks == Max(1, total_hours.val \div 10)
    IN  IF Raised(total_hours) THEN total_hours
        ELSE Ok(Breakdown([week \in 1..weeks |->
                              total_hours.val - (week - 1) * 10]))

CurriculumAgent_create_weekly_breakdown(cert) ==
    LET total_hours == int(split_first(cert.estimated_study_time, "-"))
        weeks == Max(1, total_hours.val \div 10)
    IN  IF Raised(total_hours) THEN total_hours
        ELSE Ok(Breakdown([week \in 1..weeks |->
                              Min(10, total_hours.val - (week - 1) * 10)]))

\* cert.get(key, [])
GetList(cert, key) == IF key \in DOMAIN cert THEN cert[key] ELSE <<>>

CurriculumAgent_try(ctx, certs) ==
    LET cert_id == SelectedOf(ctx)
        cert == CertificationData_get_certification_by_id(certs, cert_id.val)
        weekly_breakdown == CurriculumAgent_create_weekly_breakdown(cert)
        study_plan ==
            [certification_id |-> cert_id,
             title |-> cert.title,
             modules |-> GetList(cert, "modules"),
             learning_paths |-> GetList(cert, "learning_paths"),
             total_study_time |-> cert.estimated_study_time,
             weekly_breakdown |-> weekly_breakdown.val,
             resources |-> <<"Microsoft Learn modules", "Official documentation",
                             "Practice tests", "Hands-on labs">>]
    IN  IF NoCertId(cert_id)
        THEN Ok(AgentResult(FALSE, [error |-> "No certification selected"],
                            "No certification selected for curriculum planning",
                            SCHEDULE, None))
        ELSE IF cert_id.type # "str" THEN Raise("AttributeError")
        ELSE IF cert = None
        THEN Ok(AgentResult(FALSE, [error |-> "Certification not found"],
                            "Certification not found", SCHEDULE, None))
        ELSE IF ~({"title", "estimated_study_time"} \subseteq DOMAIN cert)
        THEN Raise("KeyError")
        ELSE IF Raised(weekly_breakdown) THEN weekly_breakdown
        ELSE Ok(AgentResult(TRUE, [study_plan |-> study_plan],
                            "Successfully created study plan",
                            SCHEDULE, [study_plan |-> study_plan]))

CurriculumAgent_execute(ctx, certs) ==
    LET r == CurriculumAgent_try(ctx, certs)
    IN  IF Raised(r)
        THEN Ok(AgentResult(FALSE, [error |-> r.exc],
                            "Error in curriculum agent", SCHEDULE, None))
        ELSE r

-----------------------------------------------------------------------------
(* ScheduleAgent *)

\* hours_per_week / 5 printed with one decimal, in tenths of an hour
HoursPerDay(hours_per_week) == 2 * hours_per_week

ScheduleAgent_create_daily_schedule(hours_per_week) ==
    [monday    |-> Format("{:.1f} hours - Core concepts", <<HoursPerDay(hours_per_week)>>),
     tuesday   |-> Format("{:.1f} hours - Hands-on practice", <<HoursPerDay(hours_per_week)>>),
     wednesday |-> Format("{:.1f} hours - Review and labs", <<HoursPerDay(hours_per_week)>>),
     thursday  |-> Format("{:.1f} hours - Practice tests", <<HoursPerDay(hours_per_week)>>),
     friday    |-> Format("{:.1f} hours - Weekly review", <<HoursPerDay(hours_per_week)>>),
     weekend   |-> Format("Rest and light review", <<>>)]

\* the milestones of a study plan, the final one placed `shift` weeks after
\* the last week of the breakdown
Milestones(study_plan, shift) ==
    LET weekly == study_plan.weekly_breakdown
        Focus(i) == IF "focus" \in DOMAIN weekly[i] THEN weekly[i].focus
                    ELSE Format("Week {} topics", <<i>>)
    IN  [i \in 1..Len(weekly) |->
            [week |-> i,
             milestone |-> Format("Complete Week {} topics", <<i>>),
             description |-> Format("Finish {}", <<Focus(i)>>),
             status |-> "Pending"]]
        \o << [week |-> Len(weekly) + shift,
               milestone |-> Format("Take certification exam", <<>>),
               description |-> Format("Schedule and take the official exam", <<>>),
               status |-> "Pending"] >>

\* _create_milestones with the exam in the last week of the breakdown
ScheduleAgent_create_milestones_last_week(study_plan) == Milestones(study_plan, 0)

ScheduleAgent_create_milestones(study_plan) == Milestones(study_plan, 1)

\* user_profile.get('study_time', '10')
StudyTime(user_profile) ==
    IF "study_time" \in DOMAIN user_profile THEN user_profile.study_time
    ELSE PyStr(<<"1", "0">>)

\* lines 403-406: the hours of a study_time, 10 when blank or unparsable; a
\* value that is not a str has no strip() and raises AttributeError, which
\* the inner except (ValueError, IndexError) does not catch
StudyHours(study_time) ==
    IF study_time.type # "str" THEN Raise("AttributeError")
    ELSE IF strip(study_time.val) = <<>> THEN Ok(10)
    ELSE IF Raised(int(first_token(study_time.val))) THEN Ok(10)
    ELSE int(first_token(study_time.val))

\* the try block of ScheduleAgent.execute; `not study_plan` is study_plan
\* = None, no context holding an empty dict as its plan
ScheduleAgent_try(ctx) ==
    LET study_plan == IF ctx # None THEN ctx.study_plan ELSE None
        study_hours == StudyHours(StudyTime(ctx.user_profile))
        schedule ==
            [certification_id |-> study_plan.certification_id,
             total_weeks |-> Len(study_plan.weekly_breakdown),
             hours_per_week |-> study_hours.val,
             daily_schedule |-> ScheduleAgent_create_daily_schedule(study_hours.val),
             milestones |-> ScheduleAgent_create_milestones(study_plan),
             exam_date |-> Format("TBD - {} weeks from start",
                                  <<Len(study_plan.weekly_breakdown)>>)]
    IN  IF study_plan = None
        THEN Ok(AgentResult(FALSE, [error |-> "No study plan available"],
                            "No study plan available for scheduling",
                            NoAgent, None))
        ELSE IF Raised(study_hours) THEN study_hours
        ELSE IF ~({"certification_id", "weekly_breakdown"} \subseteq DOMAIN study_plan)
        THEN Raise("KeyError")
        ELSE Ok(AgentResult(TRUE, [schedule |-> schedule],
                            "Successfully created study schedule",
                            NoAgent, [schedule |-> schedule]))

\* execute with an outer handler as narrow as the inner one
ScheduleAgent_execute_narrow(ctx) ==
    LET r == ScheduleAgent_try(ctx)
    IN  IF Raised(r) /\ r.exc \in {"ValueError", "IndexError"}
        THEN Ok(AgentResult(FALSE, [error |-> r.exc],
                            "Error in schedule agent", NoAgent, None))
        ELSE r

ScheduleAgent_execute(ctx) ==
    LET r == ScheduleAgent_try(ctx)
    IN  IF Raised(r)
        THEN Ok(AgentResult(FALSE, [error |-> r.exc],
                            "Error in schedule agent", NoAgent, None))
        ELSE r

-----------------------------------------------------------------------------
(* Inputs *)

Hours(lo, hi) == lo \o <<"-">> \o hi \o <<" ","h","o","u","r","s">>

\* records a certifications.json may hold: a complete one with an upper-case
\* id, one whose study time is not a range, one without a study time, one
\* with a title only
FileAz == [id |-> <<"A","Z","-","9","0","0">>, title |-> "Azure Fundamentals",
           description |-> "Cloud concepts", level |-> "Fundamental",
           estimated_study_time |-> Hours(<<"2","5">>, <<"3","5">>)]
FileAi == [id |-> AI900, title |-> "Azure AI Fundamentals",
           description |-> "AI concepts", level |-> "Fundamental",
           estimated_study_time |-> <<"T","B","D">>,
           modules |-> <<"Describe AI workloads">>]
FileDp == [id |-> <<"D","P","-","1","0","0">>, title |-> "Azure Data Scientist",
           description |-> "Data science", level |-> "Associate"]
FileBare == [title |-> "Untitled"]

RecordPool == {FileAz, FileAi, FileDp, FileBare}

SeqsUpTo(S, n) == UNION {[1..k -> S] : k \in 0..n}

Sources ==
    {[state |-> st] : st \in {"missing", "unreadable", "malformed", "no_key"}}
    \cup {[state |-> "loaded", certifications |-> c] :
              c \in SeqsUpTo(RecordPool, MaxCatalog)}

\* fragments of completion texts and fault messages
Chunks ==
    { <<"a","z","-","9","0","0">>,
      <<"A","I","-","9","0","0">>,
      <<"D","p","-","1","0","0">>,
      <<"0"," ","o","k"," ">> }

RECURSIVE Concat(_)
Concat(ss) == IF ss = <<>> THEN <<>> ELSE Head(ss) \o Concat(Tail(ss))

Texts(n) == {Concat(cs) : cs \in SeqsUpTo(Chunks, n)}

CompletionsUpTo(n, m) ==
    {[kind |-> "text", content |-> PyStr(t)] : t \in Texts(n)}
    \cup {[kind |-> "text", content |-> None]}
    \cup {[kind |-> "fault", message |-> t] : t \in Texts(m)}

StudyTimes ==
    { PyStr(<<"1","5"," ","h","r","s">>), PyStr(<<" "," ">>), PyStr(<<>>),
      PyStr(<<"s","o","o","n">>), PyStr(<<" ","1","_","2","\t","h">>),
      PyInt(15), None }

Profiles ==
    {[experience |-> "beginner"]}
    \cup {[experience |-> "beginner", study_time |-> t] : t \in StudyTimes}

\* profiles of the pipeline runs: no study time, a text, a number
RunProfiles ==
    {[experience |-> "beginner"]}
    \cup {[experience |-> "beginner", study_time |-> t] :
              t \in {PyStr(<<"1","5"," ","h","r","s">>), PyInt(15)}}

\* study plans of n weeks, the weeks with or without a focus label
PlanOf(n, labelled) ==
    [certification_id |-> PyStr(AZ900),
     title |-> "Azure Fundamentals",
     weekly_breakdown |->
        [w \in 1..n |->
            IF labelled
            THEN [week |-> w, focus |-> Format("Week {} topics", <<w>>), hours |-> 10]
            ELSE [week |-> w, hours |-> 10]]]

StudyPlans ==
    {PlanOf(n, l) : n \in 0..MaxWeeks, l \in BOOLEAN}
    \cup {[certification_id |-> PyStr(AZ900)]}

Selections ==
    {None, PyStr(<<>>), PyStr(AZ900), PyStr(<<"D","P","-","1","0","0">>),
     PyStr(<<"z","z","-","9","9","9">>)}

\* contexts an agent may be handed when it is called on its own
AnyContexts ==
    {None}
    \cup {[AgentContext(p) EXCEPT !.selected_certification = c] :
              p \in Profiles, c \in Selections}
    \cup {[AgentContext(p) EXCEPT !.selected_certification = PyStr(AZ900),
                                  !.study_plan = sp] :
              p \in Profiles, sp \in StudyPlans}

-----------------------------------------------------------------------------
(* The driver *)

\* the driver applies a result's context_updates field by field
Merge(ctx, context_updates) ==
    IF context_updates = None THEN ctx
    ELSE [f \in DOMAIN ctx |->
             IF f \in DOMAIN context_updates THEN context_updates[f] ELSE ctx[f]]

Entry(agent, ctx, completion, result, n) ==
    [agent |-> agent, context |-> ctx, completion |-> completion,
     result |-> result, calls |-> n]

\* CertificationData() at start-up; a fault of the constructor ends the run
Construct(next_pc) ==
    /\ LET r == CertificationData_init(source)
       IN  IF Raised(r)
           THEN pc' = "no_catalog" /\ UNCHANGED certifications
           ELSE pc' = next_pc /\ certifications' = r.val
    /\ UNCHANGED <<source, context, log, calls>>

\* one step of the pipeline: the agent runs, its context_updates are merged
Step(agent, r, completion, n, next_pc) ==
    IF Raised(r)
    THEN /\ pc' = "crashed"
         /\ UNCHANGED <<source, certifications, context, log, calls>>
    ELSE /\ pc' = next_pc
         /\ context' = Merge(context, r.val.context_updates)
         /\ log' = Append(log, Entry(agent, context, completion, r.val, n))
         /\ calls' = n
         /\ UNCHANGED <<source, certifications>>

GoalCalls(ctx) ==
    IF GoalAgent_calls_service(ctx, certifications) THEN calls + 1 ELSE calls

Load ==
    /\ pc = "construct"
    /\ Construct(GOAL)

RunGoal ==
    /\ pc = GOAL
    /\ \E completion \in CompletionsUpTo(MaxChunks, MaxFaultChunks) :
          Step(GOAL, GoalAgent_execute(context, certifications, completion),
               completion, GoalCalls(context), PREREQUISITE)

RunPrerequisite ==
    /\ pc = PREREQUISITE
    /\ Step(PREREQUISITE, PrerequisiteAgent_execute(context, certifications),
            None, calls, CURRICULUM)

RunCurriculum ==
    /\ pc = CURRICULUM
    /\ Step(CURRICULUM, CurriculumAgent_execute(context, certifications),
            None, calls, SCHEDULE)

RunSchedule ==
    /\ pc = SCHEDULE
    /\ Step(SCHEDULE, ScheduleAgent_execute(context), None, calls, "done")

Init ==
    /\ source \in Sources
    /\ certifications = <<>>
    /\ context \in {AgentContext(p) : p \in RunProfiles}
    /\ pc = "construct"
    /\ log = <<>>
    /\ calls = 0

Next == Load \/ RunGoal \/ RunPrerequisite \/ RunCurriculum \/ RunSchedule

Spec == Init /\ [][Next]_vars

-----------------------------------------------------------------------------
(* Each agent called on its own, on any context *)

\* execute() is called once; nothing merges its result
Call(agent, r, completion, n) ==
    /\ IF Raised(r)
       THEN pc' = "crashed" /\ UNCHANGED <<log, calls>>
       ELSE /\ pc' = "done"
            /\ log' = Append(log, Entry(agent, context, completion, r.val, n))
            /\ calls' = n
    /\ UNCHANGED <<source, certifications, context>>

LoadForCall ==
    /\ pc = "construct"
    /\ Construct("ready")

CallGoal ==
    /\ pc = "ready"
    /\ \E completion \in CompletionsUpTo(MaxCallChunks, MaxFaultChunks) :
          Call(GOAL, GoalAgent_execute(context, certifications, completion),
               completion, GoalCalls(context))

CallPrerequisite ==
    /\ pc = "ready"
    /\ Call(PREREQUISITE, PrerequisiteAgent_execute(context, certifications),
            None, calls)

CallCurriculum ==
    /\ pc = "ready"
    /\ Call(CURRICULUM, CurriculumAgent_execute(context, certifications),
            None, calls)

CallSchedule ==
    /\ pc = "ready"
    /\ Call(SCHEDULE, ScheduleAgent_execute(context), None, calls)

InitCall ==
    /\ source \in Sources
    /\ certifications = <<>>
    /\ context \in AnyContexts
    /\ pc = "construct"
    /\ log = <<>>
    /\ calls = 0

NextCall ==
    LoadForCall \/ CallGoal \/ CallPrerequisite \/ CallCurriculum \/ CallSchedule

CallSpec == InitCall /\ [][NextCall]_vars

-----------------------------------------------------------------------------
(* Vocabulary of the properties *)

AZ_900 == <<"A","Z","-","9","0","0">>
AI_900 == <<"A","I","-","9","0","0">>

\* the log entries of an agent
EntriesOf(agent) == {i \in 1..Len(log) : log[i].agent = agent}

\* the identifier-shaped tokens of a completion that carries a text
IsText(completion) == completion.kind = "text" /\ completion.content.type = "str"
Tokens(completion) == re_findall(upper(completion.content.val))
FirstThree(ids) == SubSeq(ids, 1, Min(3, Len(ids)))
Occurs(x, ids) == \E k \in 1..Len(ids) : ids[k] = x

Resolves(cert_id) ==
    CertificationData_get_certification_by_id(certifications, cert_id) # None

\* every record is a CertificationRecord of the data model
CompleteCatalog ==
    \A k \in 1..Len(certifications) :
        {"id", "title", "description", "level", "estimated_study_time"}
            \subseteq DOMAIN certifications[k]

RecommendedIds(result) ==
    {result.data.recommendations[k].certification_id.val :
        k \in 1..Len(result.data.recommendations)}

Forward(agent) ==
    CASE agent = GOAL -> PREREQUISITE
      [] agent = PREREQUISITE -> CURRICULUM
      [] agent = CURRICULUM -> SCHEDULE
      [] agent = SCHEDULE -> NoAgent

HasStudyTime(ctx) == "study_time" \in DOMAIN ctx.user_profile
TextStudyTime(ctx) == HasStudyTime(ctx) /\ ctx.user_profile.study_time.type = "str"

WellFormedPlan(ctx) ==
    /\ ctx # None
    /\ ctx.study_plan # None
    /\ {"certification_id", "weekly_breakdown"} \subseteq DOMAIN ctx.study_plan

-----------------------------------------------------------------------------
(* Properties *)

\* C1: a pipeline run with a valid profile (study time absent or a text) and
\* a completion text holding exactly one identifier, which resolves to a
\* complete record with a parsable study time, ends with all five optional
\* context fields populated and the Schedule step's next agent none.
C1_AllFivePopulated ==
    (/\ pc = "done"
     /\ (HasStudyTime(log[1].context) => TextStudyTime(log[1].context))
     /\ CompleteCatalog
     /\ IsText(log[1].completion)
     /\ Len(Tokens(log[1].completion)) = 1
     /\ Resolves(Tokens(log[1].completion)[1])
     /\ ~Raised(CurriculumAgent_create_weekly_breakdown(
            CertificationData_get_certification_by_id(
                certifications, Tokens(log[1].completion)[1]))))
    => /\ context.selected_certification # None
       /\ context.recommendations # None
       /\ context.prerequisites_analysis # None
       /\ context.study_plan # None
       /\ context.schedule # None
       /\ log[4].result.next_agent = NoAgent

\* C2: no fault leaves execute() of any agent on any input, and every
\* failure result carries an 'error' entry in its data and points forward
\* (Goal -> Prerequisite -> Curriculum -> Schedule -> none).
C2_FaultsBecomeResults ==
    /\ pc # "crashed"
    /\ \A i \in 1..Len(log) :
          ~log[i].result.success =>
              /\ "error" \in DOMAIN log[i].result.data
              /\ log[i].result.next_agent = Forward(log[i].agent)

\* a fault raised inside the Schedule agent came back as a failure result
C2_Witness ==
    /\ pc = "done"
    /\ \E i \in EntriesOf(SCHEDULE) :
          /\ ~log[i].result.success
          /\ log[i].result.data.error = "AttributeError"

\* C3 as stated: whenever the completion text holds the tokens AZ-900 and
\* AI-900 (any case, anywhere) and both are in the catalog, the Goal step
\* recommends both, and never more than 3 certifications.
C3_BothRecommended ==
    \A i \in EntriesOf(GOAL) :
        (/\ IsText(log[i].completion)
         /\ CompleteCatalog
         /\ Occurs(AZ_900, Tokens(log[i].completion))
         /\ Occurs(AI_900, Tokens(log[i].completion))
         /\ Resolves(AZ_900) /\ Resolves(AI_900))
        => /\ log[i].result.success
           /\ {AZ900, AI900} \subseteq RecommendedIds(log[i].result)
           /\ Len(log[i].result.data.recommendations) <= 3

\* C3 amended: the Goal step never recommends more than 3 certifications;
\* and when AZ-900 and AI-900 are both among the first three
\* identifier-shaped tokens of the text and both are in a catalog of
\* complete records, it recommends both.
C3_FirstThreeRecommended ==
    \A i \in EntriesOf(GOAL) :
        /\ log[i].result.success =>
               Len(log[i].result.data.recommendations) <= 3
        /\ (/\ IsText(log[i].completion)
            /\ CompleteCatalog
            /\ Occurs(AZ_900, FirstThree(Tokens(log[i].completion)))
            /\ Occurs(AI_900, FirstThree(Tokens(log[i].completion)))
            /\ Resolves(AZ_900) /\ Resolves(AI_900))
           => /\ log[i].result.success
              /\ {AZ900, AI900} \subseteq RecommendedIds(log[i].result)

\* a text of four tokens, the two among its first three, both recommended
C3_Witness ==
    \E i \in EntriesOf(GOAL) :
        /\ IsText(log[i].completion)
        /\ Len(Tokens(log[i].completion)) = 4
        /\ Occurs(AZ_900, FirstThree(Tokens(log[i].completion)))
        /\ Occurs(AI_900, FirstThree(Tokens(log[i].completion)))
        /\ log[i].result.success
        /\ {AZ900, AI900} \subseteq RecommendedIds(log[i].result)
        /\ Len(log[i].result.data.recommendations) = 3

\* the catalog record the Curriculum agent of log entry i resolves
SelectedRecord(i) ==
    CertificationData_get_certification_by_id(
        certifications, log[i].context.selected_certification.val)

\* log entry i is a Curriculum step on a certification of "25-35 hours"
Curriculum25(i) ==
    /\ log[i].agent = CURRICULUM
    /\ log[i].context # None
    /\ ~NoCertId(log[i].context.selected_certification)
    /\ SelectedRecord(i) # None
    /\ "estimated_study_time" \in DOMAIN SelectedRecord(i)
    /\ SelectedRecord(i).estimated_study_time = Hours(<<"2","5">>, <<"3","5">>)

WeekHours(i) ==
    [w \in 1..Len(log[i].result.data.study_plan.weekly_breakdown) |->
        log[i].result.data.study_plan.weekly_breakdown[w].hours]
WeekNumbers(i) ==
    [w \in 1..Len(log[i].result.data.study_plan.weekly_breakdown) |->
        log[i].result.data.study_plan.weekly_breakdown[w].week]

\* C4 as stated: for "25-35 hours" the Curriculum step succeeds with weeks
\* 1 and 2, of 10 and 15 hours.
C4_Week2Has15Hours ==
    \A i \in 1..Len(log) :
        Curriculum25(i) =>
            /\ log[i].result.success
            /\ WeekNumbers(i) = <<1, 2>>
            /\ WeekHours(i) = <<10, 15>>

\* C4 amended: for "25-35 hours" the Curriculum step succeeds with weeks
\* 1 and 2, of 10 hours each.
C4_Week2Has10Hours ==
    \A i \in 1..Len(log) :
        Curriculum25(i) =>
            /\ log[i].result.success
            /\ WeekNumbers(i) = <<1, 2>>
            /\ WeekHours(i) = <<10, 10>>

\* a Curriculum step on a "25-35 hours" certification has produced a plan
C4_Witness ==
    \E i \in 1..Len(log) :
        /\ Curriculum25(i)
        /\ log[i].result.success
        /\ Len(log[i].result.data.study_plan.weekly_breakdown) = 2

\* C5: with a study plan in the context the Schedule step succeeds, taking
\* hours_per_week from the first token of study_time, and 10 for a
\* study_time that is absent, blank, unparsable or not a text.
C5_ScheduleDefaultsHours ==
    \A i \in EntriesOf(SCHEDULE) :
        WellFormedPlan(log[i].context) =>
            /\ log[i].result.success
            /\ log[i].result.data.schedule.hours_per_week =
                   IF /\ TextStudyTime(log[i].context)
                      /\ log[i].context.user_profile.study_time.val
                             = <<"1","5"," ","h","r","s">>
                   THEN 15
                   ELSE IF /\ TextStudyTime(log[i].context)
                           /\ log[i].context.user_profile.study_time.val
                                  = <<" ","1","_","2","\t","h">>
                   THEN 12
                   ELSE 10

\* C6: when the Completion Service faults, whatever the fault message, the
\* Goal step fails with next agent Prerequisite and proposes no update.
C6_FaultFailsGoal ==
    \A i \in EntriesOf(GOAL) :
        log[i].completion.kind = "fault" =>
            /\ ~log[i].result.success
            /\ log[i].result.next_agent = PREREQUISITE
            /\ log[i].result.context_updates = None

\* C7: in a pipeline run whose context has no selected_certification the
\* Prerequisite step fails towards Curriculum without a Completion Service
\* call, the Curriculum step fails towards Schedule, the Schedule step fails
\* with no next agent, none proposes an update, and prerequisites_analysis,
\* study_plan and schedule stay unset.
C7_DegradesStepByStep ==
    /\ \A i \in 1..Len(log) :
          (log[i].agent # GOAL /\ NoCertId(log[i].context.selected_certification))
          => /\ ~log[i].result.success
             /\ log[i].result.next_agent = Forward(log[i].agent)
             /\ log[i].result.context_updates = None
             /\ log[i].calls = log[i - 1].calls
    /\ (pc \in {PREREQUISITE, CURRICULUM, SCHEDULE, "done"}
           /\ NoCertId(context.selected_certification))
       => /\ context.prerequisites_analysis = None
          /\ context.study_plan = None
          /\ context.schedule = None

\* a run that went through all three steps without a selection
C7_Witness ==
    /\ pc = "done"
    /\ context.selected_certification = None
    /\ Len(log) = 4
    /\ \A i \in 2..4 : ~log[i].result.success
    /\ log[4].result.next_agent = NoAgent

\* C8: whatever the state of the backing file, constructing the Catalog
\* Store does not fail the run and leaves a non-empty catalog, the two seed
\* records when the file is unavailable.
C8_CatalogNeverEmpty ==
    pc # "construct" =>
        /\ pc # "no_catalog"
        /\ certifications # <<>>
        /\ source.state \in {"missing", "unreadable", "malformed"}
              => certifications = CertificationData_get_sample_certifications

\* C9: a successful Schedule step on a plan of n weeks gives total_weeks = n
\* and n + 1 milestones: milestone i of week i titled "Complete Week i
\* topics", then the exam milestone of week n + 1, all Pending.
C9_MilestonesFollowWeeks ==
    \A i \in EntriesOf(SCHEDULE) :
        log[i].result.success =>
            LET n == Len(log[i].context.study_plan.weekly_breakdown)
                schedule == log[i].result.data.schedule
                milestones == schedule.milestones
            IN  /\ schedule.total_weeks = n
                /\ Len(milestones) = n + 1
                /\ \A k \in 1..n :
                      /\ milestones[k].week = k
                      /\ milestones[k].milestone
                            = Format("Complete Week {} topics", <<k>>)
                      /\ milestones[k].status = "Pending"
                /\ milestones[n + 1].week = n + 1
                /\ milestones[n + 1].milestone
                      = Format("Take certification exam", <<>>)
                /\ milestones[n + 1].status = "Pending"

\* a schedule was made for a plan of at least two weeks
C9_Witness ==
    \E i \in EntriesOf(SCHEDULE) :
        /\ log[i].result.success
        /\ Len(log[i].context.study_plan.weekly_breakdown) >= 2
        /\ Len(log[i].result.data.schedule.milestones) >= 3

\* C10: when the Goal step succeeds it selects the lower-cased identifier of
\* its first recommendation, which resolves in the catalog, so the
\* Prerequisite step succeeds and sets prerequisites_analysis and the
\* Curriculum step does not fail with 'not found'.
C10_GoalSelectionResolves ==
    \A i \in 1..Len(log) :
        log[1].result.success =>
            /\ log[i].agent = GOAL =>
                  /\ log[i].result.context_updates.selected_certification
                        = log[i].result.data.recommendations[1].certification_id
                  /\ Resolves(log[i].result.context_updates
                                  .selected_certification.val)
            /\ log[i].agent = PREREQUISITE =>
                  /\ log[i].result.success
                  /\ log[i].result.context_updates # None
                  /\ "prerequisites_analysis"
                        \in DOMAIN log[i].result.context_updates
            /\ log[i].agent = CURRICULUM =>
                  (~log[i].result.success =>
                      log[i].result.data.error # "Certification not found")

====
